---------------------------- MODULE Spec2Model ----------------------------
(***************************************************************************)
(* The AMQP endpoint state machine of pyngus (pyngus/endpoint.py).         *)
(*                                                                         *)
(* Several Endpoint instances are served by one single-threaded engine.    *)
(* Each delivery of an event to an endpoint is one call of                 *)
(* Endpoint._process_endpoint_event.  The hooks (_ep_requested,            *)
(* _ep_active, _ep_need_close, _ep_closed, _ep_error) are the base class's *)
(* hooks, which only log; every invocation is recorded in `calls` together *)
(* with the value self._state holds at the moment of the call.             *)
(***************************************************************************)
EXTENDS Integers, Sequences, FiniteSets, TLC

\* ------------------------------------------------------------------ bounds
\* Number of Endpoint instances served by the engine.
NumEndpoints == 2
\* Total number of events the engine delivers (over all endpoints).
MaxEvents == 5
\* Total number of redundant notifications the legacy engine delivers.
MaxExtra == 2
\* Total number of redundant notifications under fair delivery.
MaxFairExtra == 1
\* Total number of calls the engine makes when it mixes events and
\* notifications.
MaxCalls == 4

Endpoints == 1..NumEndpoints

\* ------------------------------------------------------ program constants
STATE_UNINIT == 0
STATE_PENDING == 1
STATE_REQUESTED == 2
STATE_CANCELLED == 3
STATE_ABANDONED == 4
STATE_ACTIVE == 5
STATE_NEED_CLOSE == 6
STATE_CLOSING == 7
STATE_CLOSED == 8
STATE_ERROR == 9

States == STATE_UNINIT..STATE_ERROR

\* Python lists are indexed from 0, TLA+ sequences from 1: STATE_NAMES[s + 1].
STATE_NAMES ==
  << "STATE_UNINIT", "STATE_PENDING", "STATE_REQUESTED",
     "STATE_CANCELLED", "STATE_ABANDONED", "STATE_ACTIVE",
     "STATE_NEED_CLOSE", "STATE_CLOSING", "STATE_CLOSED",
     "STATE_ERROR" >>

LOCAL_OPENED == 0
LOCAL_CLOSED == 1
REMOTE_OPENED == 2
REMOTE_CLOSED == 3

Events == LOCAL_OPENED..REMOTE_CLOSED

EVENT_NAMES ==
  << "LOCAL_OPENED", "LOCAL_CLOSED", "REMOTE_OPENED", "REMOTE_CLOSED" >>

\* The action slot of a table entry: None, or the hook the lambda invokes.
None == "None"
EpRequested == "_ep_requested"
EpActive == "_ep_active"
EpNeedClose == "_ep_need_close"
EpClosed == "_ep_closed"
EpError == "_ep_error"

EntryActions == {EpRequested, EpActive, EpNeedClose, EpClosed}
Hooks == EntryActions \cup {EpError}

\* --------------------------------------------------------------- the table
\* Endpoint._FSM: indexed by state, each entry a dict from event to the
\* tuple (next-state, action).  A dict is a function on the keys it holds;
\* the action is None or the hook the entry's lambda invokes.
_FSM_STATE_UNINIT ==
  (LOCAL_OPENED :> <<STATE_PENDING, None>>)
    @@ (REMOTE_OPENED :> <<STATE_REQUESTED, EpRequested>>)

_FSM_STATE_PENDING ==
  (LOCAL_CLOSED :> <<STATE_CANCELLED, None>>)
    @@ (REMOTE_OPENED :> <<STATE_ACTIVE, EpActive>>)

\* Mutant: the entry action of REQUESTED --LOCAL_OPENED--> ACTIVE is left out.
_FSM_STATE_REQUESTED_NoAction ==
  (LOCAL_OPENED :> <<STATE_ACTIVE, None>>)
    @@ (REMOTE_CLOSED :> <<STATE_ABANDONED, None>>)

_FSM_STATE_REQUESTED ==
  (LOCAL_OPENED :> <<STATE_ACTIVE, EpActive>>)
    @@ (REMOTE_CLOSED :> <<STATE_ABANDONED, None>>)

\* Mutant: a remote open after a local cancel is taken for a normal open.
_FSM_STATE_CANCELLED_Activates ==
  (REMOTE_OPENED :> <<STATE_ACTIVE, EpActive>>)

\* Mutant: a remote open after a local cancel closes the endpoint at once.
_FSM_STATE_CANCELLED_Closes ==
  (REMOTE_OPENED :> <<STATE_CLOSED, EpClosed>>)

_FSM_STATE_CANCELLED ==
  (REMOTE_OPENED :> <<STATE_CLOSING, None>>)

\* Mutant: a local open after a remote abandon is taken for a normal open.
_FSM_STATE_ABANDONED_Activates ==
  (LOCAL_OPENED :> <<STATE_ACTIVE, EpActive>>)
    @@ (LOCAL_CLOSED :> <<STATE_CLOSED, EpClosed>>)

_FSM_STATE_ABANDONED ==
  (LOCAL_OPENED :> <<STATE_NEED_CLOSE, EpNeedClose>>)
    @@ (LOCAL_CLOSED :> <<STATE_CLOSED, EpClosed>>)

\* Mutant: the entry for a remote close of an active endpoint is missing.
_FSM_STATE_ACTIVE_LocalCloseOnly ==
  (LOCAL_CLOSED :> <<STATE_CLOSING, None>>)

_FSM_STATE_ACTIVE ==
  (LOCAL_CLOSED :> <<STATE_CLOSING, None>>)
    @@ (REMOTE_CLOSED :> <<STATE_NEED_CLOSE, EpNeedClose>>)

\* Mutant: a remote open in STATE_NEED_CLOSE makes the endpoint active again.
_FSM_STATE_NEED_CLOSE_Reactivates ==
  (LOCAL_CLOSED :> <<STATE_CLOSED, EpClosed>>)
    @@ (REMOTE_OPENED :> <<STATE_ACTIVE, EpActive>>)

_FSM_STATE_NEED_CLOSE ==
  (LOCAL_CLOSED :> <<STATE_CLOSED, EpClosed>>)

\* Mutant: the entry action of CLOSING --REMOTE_CLOSED--> CLOSED is left out.
_FSM_STATE_CLOSING_NoAction ==
  (REMOTE_CLOSED :> <<STATE_CLOSED, None>>)

_FSM_STATE_CLOSING ==
  (REMOTE_CLOSED :> <<STATE_CLOSED, EpClosed>>)

\* Mutant: a closed endpoint may be opened again.
_FSM_STATE_CLOSED_Reopens ==
  (REMOTE_CLOSED :> <<STATE_CLOSED, None>>)
    @@ (LOCAL_OPENED :> <<STATE_PENDING, None>>)

\* Mutant: a redundant local close is an entry that leads to STATE_ERROR.
_FSM_STATE_CLOSED_LocalCloseFails ==
  (REMOTE_CLOSED :> <<STATE_CLOSED, None>>)
    @@ (LOCAL_CLOSED :> <<STATE_ERROR, None>>)

\* Mutant: STATE_CLOSED has no entry for a redundant REMOTE_CLOSED.
_FSM_STATE_CLOSED_NoLoop == << >>

\* Mutant: a redundant REMOTE_CLOSED invokes _ep_closed again.
_FSM_STATE_CLOSED_ClosesAgain ==
  (REMOTE_CLOSED :> <<STATE_CLOSED, EpClosed>>)

_FSM_STATE_CLOSED ==
  (REMOTE_CLOSED :> <<STATE_CLOSED, None>>)

\* Mutant: STATE_ERROR has an empty dict, so every event in it is a miss.
_FSM_STATE_ERROR_Empty == << >>

_FSM_STATE_ERROR ==
  (LOCAL_OPENED :> <<STATE_ERROR, None>>)
    @@ (LOCAL_CLOSED :> <<STATE_ERROR, None>>)
    @@ (REMOTE_OPENED :> <<STATE_ERROR, None>>)
    @@ (REMOTE_CLOSED :> <<STATE_ERROR, None>>)

_FSM ==
  [s \in States |->
     CASE s = STATE_UNINIT -> _FSM_STATE_UNINIT
       [] s = STATE_PENDING -> _FSM_STATE_PENDING
       [] s = STATE_REQUESTED -> _FSM_STATE_REQUESTED
       [] s = STATE_CANCELLED -> _FSM_STATE_CANCELLED
       [] s = STATE_ABANDONED -> _FSM_STATE_ABANDONED
       [] s = STATE_ACTIVE -> _FSM_STATE_ACTIVE
       [] s = STATE_NEED_CLOSE -> _FSM_STATE_NEED_CLOSE
       [] s = STATE_CLOSING -> _FSM_STATE_CLOSING
       [] s = STATE_CLOSED -> _FSM_STATE_CLOSED
       [] s = STATE_ERROR -> _FSM_STATE_ERROR]

\* dict.get(key): the value, or Python's None when the key is absent.  None
\* is modelled by the empty tuple, which `not entry` treats like None.
DictGet(d, key) == IF key \in DOMAIN d THEN d[key] ELSE << >>

\* Python truthiness of a tuple-or-None: `not entry`.
Not(entry) == entry = << >>

\* ------------------------------------------------------------------- state
VARIABLES
  _state,   \* _state[e]: Endpoint._state of endpoint e
  hist,     \* hist[e]: the dispatches made on e: [event, from, to]
  calls,    \* calls[e]: the hook invocations made by e, in order
  _remote_events,  \* _remote_events[e]: the remote events e still expects
  _local_events,   \* _local_events[e]: the local events e still expects
  ops       \* ops[e]: the calls the engine has made on e, in order

vars == <<_state, hist, calls, _remote_events, _local_events, ops>>

\* One call made by the engine on an endpoint: the method ("event",
\* "remote" or "local"), the event it dispatched (<<event>>, or << >> when it
\* dispatched none), the number of its dispatch in hist (0 when none) and
\* whether an exception left the method.
Op(op, arg, at, raised) ==
  [op |-> op, arg |-> arg, at |-> at, raised |-> raised]

\* One hook invocation: the hook, self._state as the hook finds it, the
\* dispatch (index into hist) that made it, and the hook's argument.
HookCall(hook, seen, at, arg) ==
  [hook |-> hook, seen |-> seen, at |-> at, arg |-> arg]

\* "invalid event=%s in state=%s" % (EVENT_NAMES[event], STATE_NAMES[old_state])
ErrorMessage(event, old_state) ==
  <<"invalid event=", EVENT_NAMES[event + 1],
    " in state=", STATE_NAMES[old_state + 1]>>

\* Mutant: an event without a table entry is ignored.
ProcessEndpointEvent_IgnoresMiss(self_state, event, at) ==
  LET entry == DictGet(_FSM[self_state], event)
  IN  IF Not(entry)
        THEN [state |-> self_state, calls |-> << >>]
        ELSE [state |-> entry[1],
              calls |-> IF entry[2] # None
                          THEN << HookCall(entry[2], entry[1], at, << >>) >>
                          ELSE << >>]

\* Mutant: the entry action of a table hit is not invoked.
ProcessEndpointEvent_SkipsAction(self_state, event, at) ==
  LET entry == DictGet(_FSM[self_state], event)
  IN  IF Not(entry)
        THEN [state |-> STATE_ERROR,
              calls |-> << HookCall(EpError, STATE_ERROR, at,
                                    ErrorMessage(event, self_state)) >>]
        ELSE [state |-> entry[1], calls |-> << >>]

\* Mutant: the hook is invoked before _state is assigned.
ProcessEndpointEvent_HookFirst(self_state, event, at) ==
  LET entry == DictGet(_FSM[self_state], event)
  IN  IF Not(entry)
        THEN [state |-> STATE_ERROR,
              calls |-> << HookCall(EpError, self_state, at,
                                    ErrorMessage(event, self_state)) >>]
        ELSE [state |-> entry[1],
              calls |-> IF entry[2] # None
                          THEN << HookCall(entry[2], self_state, at, << >>) >>
                          ELSE << >>]

\* Mutant: the error message reads _state after it was set to STATE_ERROR.
ProcessEndpointEvent_MessageAfterAssign(self_state, event, at) ==
  LET entry == DictGet(_FSM[self_state], event)
  IN  IF Not(entry)
        THEN [state |-> STATE_ERROR,
              calls |-> << HookCall(EpError, STATE_ERROR, at,
                                    ErrorMessage(event, STATE_ERROR)) >>]
        ELSE [state |-> entry[1],
              calls |-> IF entry[2] # None
                          THEN << HookCall(entry[2], entry[1], at, << >>) >>
                          ELSE << >>]

\* Endpoint._process_endpoint_event run on an endpoint whose _state is
\* `self_state`: the resulting _state and the hook invocations made, in
\* order.  `at` numbers the dispatch.
ProcessEndpointEvent(self_state, event, at) ==
  LET state_fsm == _FSM[self_state]
      entry == DictGet(state_fsm, event)
  IN  IF Not(entry)
        THEN LET old_state == self_state
                 state1 == STATE_ERROR
             IN  [state |-> state1,
                  calls |-> << HookCall(EpError, state1, at,
                                        ErrorMessage(event, old_state)) >>]
        ELSE LET state1 == entry[1]
             IN  [state |-> state1,
                  calls |-> IF entry[2] # None
                              THEN << HookCall(entry[2], state1, at, << >>) >>
                              ELSE << >>]

\* Number of events delivered so far, over all endpoints.
RECURSIVE SumLen(_, _)
SumLen(f, S) ==
  IF S = {} THEN 0
  ELSE LET x == CHOOSE y \in S : TRUE
       IN  Len(f[x]) + SumLen(f, S \ {x})

Delivered == SumLen(hist, Endpoints)

\* Endpoint.__init__ for every endpoint, with _PROTON_VERSION >= (0, 8): the
\* instance gets no _remote_events and no _local_events (modelled as empty,
\* and never read).
Init ==
  /\ _state = [e \in Endpoints |-> STATE_UNINIT]
  /\ hist = [e \in Endpoints |-> << >>]
  /\ calls = [e \in Endpoints |-> << >>]
  /\ _remote_events = [e \in Endpoints |-> << >>]
  /\ _local_events = [e \in Endpoints |-> << >>]
  /\ ops = [e \in Endpoints |-> << >>]

\* The engine calls e._process_endpoint_event(event).
_process_endpoint_event(e, event) ==
  /\ Delivered < MaxEvents
  /\ LET r == ProcessEndpointEvent(_state[e], event, Len(hist[e]) + 1)
     IN  /\ _state' = [_state EXCEPT ![e] = r.state]
         /\ hist' = [hist EXCEPT ![e] =
                       Append(@, [event |-> event, from |-> _state[e],
                                  to |-> r.state])]
         /\ calls' = [calls EXCEPT ![e] = @ \o r.calls]
         /\ ops' = [ops EXCEPT ![e] =
                      Append(@, Op("event", <<event>>, Len(hist[e]) + 1,
                                   FALSE))]
         /\ UNCHANGED <<_remote_events, _local_events>>

Next == \E e \in Endpoints, event \in Events : _process_endpoint_event(e, event)

Spec == Init /\ [][Next]_vars

\* ------------------------------------------------- the legacy event model
\* With _PROTON_VERSION < (0, 8) the engine only tells that the local or the
\* remote state of an endpoint changed; the endpoint maps each notification
\* to the next event it expects on that side.

\* self._remote_events as __init__ sets it.
RemoteEventsInit == <<REMOTE_OPENED, REMOTE_CLOSED>>

\* Mutant: the local events are expected in the wrong order.
LocalEventsInit_ClosedFirst == <<LOCAL_CLOSED, LOCAL_OPENED>>

\* self._local_events as __init__ sets it.
LocalEventsInit == <<LOCAL_OPENED, LOCAL_CLOSED>>

\* Endpoint.__init__ for every endpoint, with _PROTON_VERSION < (0, 8).
InitLegacy ==
  /\ _state = [e \in Endpoints |-> STATE_UNINIT]
  /\ hist = [e \in Endpoints |-> << >>]
  /\ calls = [e \in Endpoints |-> << >>]
  /\ _remote_events = [e \in Endpoints |-> RemoteEventsInit]
  /\ _local_events = [e \in Endpoints |-> LocalEventsInit]
  /\ ops = [e \in Endpoints |-> << >>]

\* list.pop(0): the first element and the rest, or IndexError on an empty
\* list.
Pop0(list) ==
  IF list = << >>
    THEN [IndexError |-> TRUE, value |-> << >>, rest |-> list]
    ELSE [IndexError |-> FALSE, value |-> <<Head(list)>>, rest |-> Tail(list)]

\* Mutant: the expected event is read but not removed from the list.
ProcessState_KeepsEvent(events, self_state, at) ==
  LET popped == Pop0(events)
  IN  IF popped.IndexError
        THEN [events |-> events, state |-> self_state, calls |-> << >>,
              event |-> << >>, raised |-> FALSE]
        ELSE LET r == ProcessEndpointEvent(self_state, popped.value[1], at)
             IN  [events |-> events, state |-> r.state,
                  calls |-> r.calls, event |-> popped.value, raised |-> FALSE]

\* The body of _process_remote_state and of _process_local_state, run on
\* the side's list `events` of an endpoint whose _state is `self_state`: the
\* list, the _state and the hook invocations it leaves, the event it
\* dispatched (<<event>>, or << >>), and whether an exception leaves it.  The
\* IndexError of pop(0) is caught and logged.
ProcessState(events, self_state, at) ==
  LET popped == Pop0(events)
  IN  IF popped.IndexError
        THEN [events |-> popped.rest, state |-> self_state, calls |-> << >>,
              event |-> << >>, raised |-> FALSE]
        ELSE LET event == popped.value[1]
                 r == ProcessEndpointEvent(self_state, event, at)
             IN  [events |-> popped.rest, state |-> r.state,
                  calls |-> r.calls, event |-> <<event>>, raised |-> FALSE]

\* What a call that ran ProcessState with result r leaves in _state, hist,
\* calls and ops of endpoint e.
Notified(e, side, r) ==
  /\ _state' = [_state EXCEPT ![e] = r.state]
  /\ hist' = [hist EXCEPT ![e] =
                IF r.event = << >> THEN @
                ELSE Append(@, [event |-> r.event[1], from |-> _state[e],
                                to |-> r.state])]
  /\ calls' = [calls EXCEPT ![e] = @ \o r.calls]
  /\ ops' = [ops EXCEPT ![e] =
               Append(@, Op(side, r.event,
                            IF r.event = << >> THEN 0 ELSE Len(hist[e]) + 1,
                            r.raised))]

\* Mutant: _remote_events is one list shared by all instances.
_process_remote_state_SharedList(e) ==
  LET r == ProcessState(_remote_events[e], _state[e], Len(hist[e]) + 1)
  IN  /\ _remote_events' = [x \in Endpoints |-> r.events]
      /\ Notified(e, "remote", r)
      /\ UNCHANGED _local_events

\* The engine calls e._process_remote_state().
_process_remote_state(e) ==
  LET r == ProcessState(_remote_events[e], _state[e], Len(hist[e]) + 1)
  IN  /\ _remote_events' = [_remote_events EXCEPT ![e] = r.events]
      /\ Notified(e, "remote", r)
      /\ UNCHANGED _local_events

\* The engine calls e._process_local_state().
_process_local_state(e) ==
  LET r == ProcessState(_local_events[e], _state[e], Len(hist[e]) + 1)
  IN  /\ _local_events' = [_local_events EXCEPT ![e] = r.events]
      /\ Notified(e, "local", r)
      /\ UNCHANGED _remote_events

\* Number of calls made so far that dispatched no event, over all endpoints.
RECURSIVE SumDiscarded(_)
SumDiscarded(S) ==
  IF S = {} THEN 0
  ELSE LET x == CHOOSE y \in S : TRUE
       IN  Len(SelectSeq(ops[x], LAMBDA o : o.arg = << >>))
             + SumDiscarded(S \ {x})

Discarded == SumDiscarded(Endpoints)

\* The engine notifies an endpoint of a remote change: one it expects, or one
\* of at most MaxExtra redundant ones.
NotifyRemote(e) ==
  /\ _remote_events[e] # << >> \/ Discarded < MaxExtra
  /\ _process_remote_state(e)

\* The engine notifies an endpoint of a local change, likewise.
NotifyLocal(e) ==
  /\ _local_events[e] # << >> \/ Discarded < MaxExtra
  /\ _process_local_state(e)

NextCompat == \E e \in Endpoints : NotifyRemote(e) \/ NotifyLocal(e)

\* The legacy engine, which only notifies.
SpecCompat == InitLegacy /\ [][NextCompat]_vars

\* The same engine with at most MaxFairExtra redundant notifications, for
\* the properties of fair delivery.
FairNotifyRemote(e) ==
  /\ _remote_events[e] # << >> \/ Discarded < MaxFairExtra
  /\ _process_remote_state(e)

FairNotifyLocal(e) ==
  /\ _local_events[e] # << >> \/ Discarded < MaxFairExtra
  /\ _process_local_state(e)

NextCompatFair == \E e \in Endpoints : FairNotifyRemote(e) \/ FairNotifyLocal(e)

\* The engine delivers a notification that some endpoint still expects.
ExpectedNotification ==
  \E e \in Endpoints :
    \/ _remote_events[e] # << >> /\ _process_remote_state(e)
    \/ _local_events[e] # << >> /\ _process_local_state(e)

\* Fair delivery: while some endpoint expects a notification, the engine
\* eventually delivers one that is expected.
SpecCompatFair ==
  /\ InitLegacy
  /\ [][NextCompatFair]_vars
  /\ WF_vars(ExpectedNotification)

\* In the legacy build all three methods exist: the engine makes at most
\* MaxCalls calls of any of them.
CallsLeft == Delivered + Discarded < MaxCalls

CallEvent(e, event) == CallsLeft /\ _process_endpoint_event(e, event)

CallRemote(e) == CallsLeft /\ _process_remote_state(e)

CallLocal(e) == CallsLeft /\ _process_local_state(e)

NextLegacy ==
  \E e \in Endpoints :
    \/ \E event \in Events : CallEvent(e, event)
    \/ CallRemote(e)
    \/ CallLocal(e)

SpecLegacy == InitLegacy /\ [][NextLegacy]_vars

\* ------------------------------------------------------ re-entrant hooks
\* A subclass of Endpoint may override a hook and, from within it, feed an
\* event back into the same endpoint.  Here the subclass's _ep_need_close
\* starts the local close that is owed: it calls
\* self._process_endpoint_event(LOCAL_CLOSED); its other hooks only log.
SubclassFeedsBack(hook) ==
  IF hook = EpNeedClose THEN <<LOCAL_CLOSED>> ELSE << >>

RECURSIVE ProcessEndpointEventNested(_, _, _)
RECURSIVE InvokeHook(_, _, _, _)

\* The invocation of `hook` of the subclass while _state is `self_state`, by
\* dispatch number `at`: the invocation, then the hook's body, which may
\* dispatch an event before it returns.  Gives the _state the hook leaves and
\* the dispatches and hook invocations made until it returns.
InvokeHook(hook, self_state, at, arg) ==
  LET call == HookCall(hook, self_state, at, arg)
      fed == SubclassFeedsBack(hook)
  IN  IF fed = << >>
        THEN [state |-> self_state, hist |-> << >>, calls |-> <<call>>]
        ELSE LET n == ProcessEndpointEventNested(self_state, fed[1], at + 1)
             IN  [state |-> n.state, hist |-> n.hist,
                  calls |-> <<call>> \o n.calls]

\* Mutant: the entry action is invoked before _state is assigned.
ProcessEndpointEventNested_HookFirst(self_state, event, at) ==
  LET entry == DictGet(_FSM[self_state], event)
  IN  IF Not(entry)
        THEN LET h == InvokeHook(EpError, STATE_ERROR, at,
                                 ErrorMessage(event, self_state))
             IN  [state |-> h.state,
                  hist |-> <<[event |-> event, from |-> self_state,
                              to |-> STATE_ERROR]>> \o h.hist,
                  calls |-> h.calls]
        ELSE LET h == IF entry[2] # None
                        THEN InvokeHook(entry[2], self_state, at, << >>)
                        ELSE [state |-> self_state, hist |-> << >>,
                              calls |-> << >>]
             IN  [state |-> entry[1],
                  hist |-> <<[event |-> event, from |-> self_state,
                              to |-> entry[1]]>> \o h.hist,
                  calls |-> h.calls]

\* Endpoint._process_endpoint_event run on an endpoint of the subclass whose
\* _state is `self_state`: _state is assigned, then the hook is invoked, and
\* nothing is done after the hook returns.  Gives the _state left when the
\* method returns, and the dispatches (this one first) and the hook
\* invocations made meanwhile.
ProcessEndpointEventNested(self_state, event, at) ==
  LET state_fsm == _FSM[self_state]
      entry == DictGet(state_fsm, event)
  IN  IF Not(entry)
        THEN LET old_state == self_state
                 state1 == STATE_ERROR
                 h == InvokeHook(EpError, state1, at,
                                 ErrorMessage(event, old_state))
             IN  [state |-> h.state,
                  hist |-> <<[event |-> event, from |-> old_state,
                              to |-> state1]>> \o h.hist,
                  calls |-> h.calls]
        ELSE LET state1 == entry[1]
                 h == IF entry[2] # None
                        THEN InvokeHook(entry[2], state1, at, << >>)
                        ELSE [state |-> state1, hist |-> << >>,
                              calls |-> << >>]
             IN  [state |-> h.state,
                  hist |-> <<[event |-> event, from |-> self_state,
                              to |-> state1]>> \o h.hist,
                  calls |-> h.calls]

\* The engine calls e._process_endpoint_event(event) on an endpoint of the
\* subclass.
DispatchToSubclass(e, event) ==
  /\ Delivered < MaxEvents
  /\ LET r == ProcessEndpointEventNested(_state[e], event, Len(hist[e]) + 1)
     IN  /\ _state' = [_state EXCEPT ![e] = r.state]
         /\ hist' = [hist EXCEPT ![e] = @ \o r.hist]
         /\ calls' = [calls EXCEPT ![e] = @ \o r.calls]
         /\ ops' = [ops EXCEPT ![e] =
                      Append(@, Op("event", <<event>>, Len(hist[e]) + 1,
                                   FALSE))]
         /\ UNCHANGED <<_remote_events, _local_events>>

NextReentrant ==
  \E e \in Endpoints, event \in Events : DispatchToSubclass(e, event)

SpecReentrant == Init /\ [][NextReentrant]_vars

\* -------------------------------------------------------------- properties
\* The hooks invoked by dispatch number i of endpoint e, in order.
HooksAt(e, i) ==
  LET made == SelectSeq(calls[e], LAMBDA c : c.at = i)
  IN  [k \in 1..Len(made) |-> made[k].hook]

\* How often endpoint e has invoked `hook` so far.
Count(e, hook) == Len(SelectSeq(calls[e], LAMBDA c : c.hook = hook))

\* The transition table has an entry for (s, event).
HasEntry(s, event) == event \in DOMAIN _FSM[s]

\* hist is the record of _state: each dispatch starts where the previous one
\* ended, the first one in STATE_UNINIT, and _state is where the last ended.
HistoryIsOfState ==
  \A e \in Endpoints :
    /\ \A i \in 1..Len(hist[e]) :
         hist[e][i].from = IF i = 1 THEN STATE_UNINIT ELSE hist[e][i - 1].to
    /\ _state[e] = IF hist[e] = << >> THEN STATE_UNINIT
                   ELSE hist[e][Len(hist[e])].to

\* C1: a dispatch of an event for which the table has no entry in the current
\* state ends in STATE_ERROR, invokes _ep_error exactly once and invokes no
\* entry action; the event is not ignored.
C1_MissGoesToError ==
  /\ HistoryIsOfState
  /\ \A e \in Endpoints : \A i \in 1..Len(hist[e]) :
       ~HasEntry(hist[e][i].from, hist[e][i].event)
         => /\ hist[e][i].to = STATE_ERROR
            /\ HooksAt(e, i) = <<EpError>>
            /\ (i = Len(hist[e]) => _state[e] = STATE_ERROR)

C1_Witness ==
  \E e \in Endpoints :
    /\ Len(hist[e]) >= 2
    /\ LET h == hist[e][Len(hist[e])]
       IN  /\ ~HasEntry(h.from, h.event)
           /\ h.from = STATE_ACTIVE
           /\ _state[e] = STATE_ERROR

Terminal == {STATE_CLOSED, STATE_ERROR}

\* C2 as stated: a dispatch made in STATE_CLOSED or STATE_ERROR leaves the
\* state as it is, whatever the event.
C2_TerminalNeverLeft ==
  \A e \in Endpoints : \A i \in 1..Len(hist[e]) :
    hist[e][i].from \in Terminal => hist[e][i].to = hist[e][i].from

\* C2 amended: STATE_ERROR is never left, whatever the event; STATE_CLOSED is
\* kept by REMOTE_CLOSED and is left, for STATE_ERROR only, by LOCAL_OPENED,
\* LOCAL_CLOSED and REMOTE_OPENED.  After a terminal state only terminal
\* states follow.
C2_TerminalLeftOnlyForError ==
  \A e \in Endpoints : \A i \in 1..Len(hist[e]) :
    /\ hist[e][i].from = STATE_ERROR => hist[e][i].to = STATE_ERROR
    /\ hist[e][i].from = STATE_CLOSED
         => hist[e][i].to = IF hist[e][i].event = REMOTE_CLOSED
                              THEN STATE_CLOSED ELSE STATE_ERROR
    /\ \A j \in i..Len(hist[e]) :
         /\ hist[e][i].to = STATE_ERROR => hist[e][j].to = STATE_ERROR
         /\ hist[e][i].to = STATE_CLOSED => hist[e][j].to \in Terminal
    /\ (hist[e][i].to = STATE_ERROR => _state[e] = STATE_ERROR)
    /\ (hist[e][i].to = STATE_CLOSED => _state[e] \in Terminal)

C2_Witness ==
  \E e \in Endpoints : \E i \in 1..Len(hist[e]) : \E j \in 1..Len(hist[e]) :
    /\ i < j
    /\ hist[e][i].from = STATE_CLOSED
    /\ hist[e][i].event = REMOTE_CLOSED
    /\ hist[e][i].to = STATE_CLOSED
    /\ hist[e][j].from = STATE_CLOSED
    /\ hist[e][j].to = STATE_ERROR

\* C3: in STATE_ERROR every event leaves the state at STATE_ERROR and invokes
\* no hook; _ep_error is invoked only by a dispatch that enters STATE_ERROR
\* from another state, hence at most once per endpoint.
C3_ErrorAbsorbingSilent ==
  \A e \in Endpoints :
    /\ \A i \in 1..Len(hist[e]) :
         hist[e][i].from = STATE_ERROR
           => /\ hist[e][i].to = STATE_ERROR
              /\ HooksAt(e, i) = << >>
    /\ \A k \in 1..Len(calls[e]) :
         calls[e][k].hook = EpError
           => /\ hist[e][calls[e][k].at].from # STATE_ERROR
              /\ hist[e][calls[e][k].at].to = STATE_ERROR
    /\ Count(e, EpError) <= 1

C3_Witness ==
  \E e \in Endpoints :
    /\ Len(hist[e]) = 5
    /\ hist[e][1].to = STATE_ERROR
    /\ {hist[e][i].event : i \in 2..5} = Events
    /\ _state[e] = STATE_ERROR
    /\ Count(e, EpError) = 1

\* The transition table of the design, written out for all 40 (state, event)
\* pairs; a pair without an entry is (STATE_ERROR, _ep_error).  Rows are
\* states 0..9, columns LOCAL_OPENED, LOCAL_CLOSED, REMOTE_OPENED,
\* REMOTE_CLOSED.
ReferenceTable ==
  LET X == <<STATE_ERROR, EpError>>
  IN  << << <<STATE_PENDING, None>>, X,
            <<STATE_REQUESTED, EpRequested>>, X >>,
         << X, <<STATE_CANCELLED, None>>, <<STATE_ACTIVE, EpActive>>, X >>,
         << <<STATE_ACTIVE, EpActive>>, X, X, <<STATE_ABANDONED, None>> >>,
         << X, X, <<STATE_CLOSING, None>>, X >>,
         << <<STATE_NEED_CLOSE, EpNeedClose>>, <<STATE_CLOSED, EpClosed>>,
            X, X >>,
         << X, <<STATE_CLOSING, None>>, X,
            <<STATE_NEED_CLOSE, EpNeedClose>> >>,
         << X, <<STATE_CLOSED, EpClosed>>, X, X >>,
         << X, X, X, <<STATE_CLOSED, EpClosed>> >>,
         << X, X, X, <<STATE_CLOSED, None>> >>,
         << <<STATE_ERROR, None>>, <<STATE_ERROR, None>>,
            <<STATE_ERROR, None>>, <<STATE_ERROR, None>> >> >>

Reference(s, event) == ReferenceTable[s + 1][event + 1]

\* C4: every dispatch sets the state to the next-state the table gives for
\* (state, event) and invokes exactly the table's entry action, once (none
\* when the entry has none); a dispatch that hits an entry never invokes
\* _ep_error.  With misses read as (STATE_ERROR, _ep_error) the dispatcher
\* agrees with the reference table on all 40 pairs.
C4_DispatchFollowsTable ==
  /\ HistoryIsOfState
  /\ \A e \in Endpoints : \A i \in 1..Len(hist[e]) :
       LET h == hist[e][i]
           ref == Reference(h.from, h.event)
       IN  /\ h.to = ref[1]
           /\ HooksAt(e, i) = IF ref[2] = None THEN << >> ELSE <<ref[2]>>
           /\ HasEntry(h.from, h.event)
                => /\ h.to = _FSM[h.from][h.event][1]
                   /\ HooksAt(e, i) =
                        IF _FSM[h.from][h.event][2] = None THEN << >>
                        ELSE <<_FSM[h.from][h.event][2]>>
                   /\ \A k \in 1..Len(HooksAt(e, i)) :
                        HooksAt(e, i)[k] # EpError

C4_Witness ==
  \E e \in Endpoints :
    /\ Len(hist[e]) = 3
    /\ hist[e][3].from = STATE_ACTIVE
    /\ hist[e][3].event = REMOTE_CLOSED
    /\ _state[e] = STATE_NEED_CLOSE
    /\ HooksAt(e, 3) = <<EpNeedClose>>

\* C5: the state changes from a state other than STATE_ERROR to STATE_ERROR
\* only in a dispatch whose (state, event) has no table entry, and that
\* dispatch invokes _ep_error; no entry of a state other than STATE_ERROR
\* names STATE_ERROR as next-state; the state is STATE_ERROR exactly when
\* _ep_error has been invoked.
C5_OnlyMissEntersError ==
  /\ \A e \in Endpoints : \A i \in 1..Len(hist[e]) :
       (hist[e][i].from # STATE_ERROR /\ hist[e][i].to = STATE_ERROR)
         => /\ ~HasEntry(hist[e][i].from, hist[e][i].event)
            /\ HooksAt(e, i) = <<EpError>>
  /\ \A s \in States \ {STATE_ERROR} : \A event \in DOMAIN _FSM[s] :
       _FSM[s][event][1] # STATE_ERROR
  /\ \A e \in Endpoints : _state[e] = STATE_ERROR <=> Count(e, EpError) > 0

C5_Witness ==
  \E e \in Endpoints :
    /\ Len(hist[e]) = 4
    /\ hist[e][4].from = STATE_CLOSED
    /\ hist[e][4].to = STATE_ERROR
    /\ _state[e] = STATE_ERROR
    /\ Count(e, EpError) = 1

\* C6: when a hook is invoked, _state already holds the state the dispatch
\* ends in: the table's next-state for an entry action, STATE_ERROR for
\* _ep_error; no hook finds the state the dispatch started in.
C6_HooksSeeNewState ==
  \A e \in Endpoints : \A k \in 1..Len(calls[e]) :
    LET c == calls[e][k]
        h == hist[e][c.at]
    IN  /\ c.at \in 1..Len(hist[e])
        /\ c.seen = h.to
        /\ c.seen # h.from
        /\ c.hook = EpError => c.seen = STATE_ERROR
        /\ c.hook \in EntryActions
             => /\ HasEntry(h.from, h.event)
                /\ c.seen = _FSM[h.from][h.event][1]

C6_Witness ==
  \E e \in Endpoints :
    /\ Len(calls[e]) = 3
    /\ calls[e][1].hook = EpRequested /\ calls[e][1].seen = STATE_REQUESTED
    /\ calls[e][2].hook = EpActive /\ calls[e][2].seen = STATE_ACTIVE
    /\ calls[e][3].hook = EpError /\ calls[e][3].seen = STATE_ERROR

\* The first n events delivered to endpoint e.
EventsOf(e, n) == [i \in 1..n |-> hist[e][i].event]

\* Endpoint e, fresh, has been sent the first n events of `path` (and
\* possibly more events after them).
Follows(e, path, n) ==
  /\ n <= Len(path)
  /\ n <= Len(hist[e])
  /\ EventsOf(e, n) = SubSeq(path, 1, n)

\* The hooks of the first n entries of `hooks`, in one sequence.
RECURSIVE Flatten(_, _)
Flatten(hooks, n) ==
  IF n = 0 THEN << >> ELSE Flatten(hooks, n - 1) \o hooks[n]

\* The hooks endpoint e has invoked so far, in order.
HooksOf(e) == [k \in 1..Len(calls[e]) |-> calls[e][k].hook]

\* Whenever a fresh endpoint has been sent a prefix of `path`, it started in
\* STATE_UNINIT, each event of the prefix took it to the state `states` gives
\* and invoked the hooks `hooks` gives for that event, and nothing else.
PathHolds(path, states, hooks) ==
  \A e \in Endpoints : \A n \in 1..Len(path) :
    Follows(e, path, n)
      => /\ hist[e][1].from = STATE_UNINIT
         /\ hist[e][n].to = states[n]
         /\ HooksAt(e, n) = hooks[n]
         /\ n = Len(hist[e])
              => /\ _state[e] = states[n]
                 /\ HooksOf(e) = Flatten(hooks, n)

\* Endpoint e has been sent exactly `path` and has ended in state s.
Walked(e, path, s) ==
  /\ Len(hist[e]) = Len(path)
  /\ EventsOf(e, Len(path)) = path
  /\ _state[e] = s

\* C7: LOCAL_OPENED, REMOTE_OPENED, LOCAL_CLOSED, REMOTE_CLOSED sent to a
\* fresh endpoint visits PENDING, ACTIVE, CLOSING, CLOSED in that order;
\* _ep_active is invoked once, on entering ACTIVE, _ep_closed once, on
\* entering CLOSED, and no other hook is invoked.
C7_HappyPath ==
  /\ PathHolds(<<LOCAL_OPENED, REMOTE_OPENED, LOCAL_CLOSED, REMOTE_CLOSED>>,
               <<STATE_PENDING, STATE_ACTIVE, STATE_CLOSING, STATE_CLOSED>>,
               << << >>, <<EpActive>>, << >>, <<EpClosed>> >>)
  /\ \A e \in Endpoints :
       Walked(e, <<LOCAL_OPENED, REMOTE_OPENED, LOCAL_CLOSED, REMOTE_CLOSED>>,
              _state[e])
         => /\ Count(e, EpActive) = 1
            /\ Count(e, EpClosed) = 1
            /\ Count(e, EpRequested) = 0
            /\ Count(e, EpNeedClose) = 0
            /\ Count(e, EpError) = 0

C7_Witness ==
  \E e \in Endpoints :
    Walked(e, <<LOCAL_OPENED, REMOTE_OPENED, LOCAL_CLOSED, REMOTE_CLOSED>>,
           STATE_CLOSED)

\* C8: REMOTE_OPENED then LOCAL_OPENED sent to a fresh endpoint reaches
\* ACTIVE through REQUESTED, invoking _ep_requested and then _ep_active, each
\* once; LOCAL_OPENED then REMOTE_OPENED reaches ACTIVE too (through
\* PENDING), and either order invokes _ep_active exactly once.
C8_OpenOrderSymmetry ==
  /\ PathHolds(<<REMOTE_OPENED, LOCAL_OPENED>>,
               <<STATE_REQUESTED, STATE_ACTIVE>>,
               << <<EpRequested>>, <<EpActive>> >>)
  /\ PathHolds(<<LOCAL_OPENED, REMOTE_OPENED>>,
               <<STATE_PENDING, STATE_ACTIVE>>,
               << << >>, <<EpActive>> >>)
  /\ \A e \in Endpoints :
       Walked(e, <<REMOTE_OPENED, LOCAL_OPENED>>, _state[e])
         => /\ _state[e] = STATE_ACTIVE
            /\ HooksOf(e) = <<EpRequested, EpActive>>
  /\ \A e \in Endpoints :
       Walked(e, <<LOCAL_OPENED, REMOTE_OPENED>>, _state[e])
         => /\ _state[e] = STATE_ACTIVE
            /\ Count(e, EpActive) = 1
  /\ \A e1 \in Endpoints : \A e2 \in Endpoints :
       /\ Walked(e1, <<REMOTE_OPENED, LOCAL_OPENED>>, _state[e1])
       /\ Walked(e2, <<LOCAL_OPENED, REMOTE_OPENED>>, _state[e2])
       => /\ _state[e1] = _state[e2]
          /\ Count(e1, EpActive) = Count(e2, EpActive)

C8_Witness ==
  \E e1 \in Endpoints : \E e2 \in Endpoints :
    /\ Walked(e1, <<REMOTE_OPENED, LOCAL_OPENED>>, STATE_ACTIVE)
    /\ Walked(e2, <<LOCAL_OPENED, REMOTE_OPENED>>, STATE_ACTIVE)

\* C9: LOCAL_OPENED, LOCAL_CLOSED, REMOTE_OPENED, REMOTE_CLOSED sent to a
\* fresh endpoint visits PENDING, CANCELLED, CLOSING, CLOSED in that order;
\* the first three events invoke no hook, the last invokes _ep_closed once;
\* _ep_active and _ep_error are never invoked.
C9_EarlyCancelPath ==
  /\ PathHolds(<<LOCAL_OPENED, LOCAL_CLOSED, REMOTE_OPENED, REMOTE_CLOSED>>,
               <<STATE_PENDING, STATE_CANCELLED, STATE_CLOSING, STATE_CLOSED>>,
               << << >>, << >>, << >>, <<EpClosed>> >>)
  /\ \A e \in Endpoints : \A n \in 1..4 :
       Follows(e, <<LOCAL_OPENED, LOCAL_CLOSED, REMOTE_OPENED,
                    REMOTE_CLOSED>>, n) /\ n = Len(hist[e])
         => /\ Count(e, EpActive) = 0
            /\ Count(e, EpError) = 0
            /\ Count(e, EpClosed) = IF n = 4 THEN 1 ELSE 0

C9_Witness ==
  \E e \in Endpoints :
    Walked(e, <<LOCAL_OPENED, LOCAL_CLOSED, REMOTE_OPENED, REMOTE_CLOSED>>,
           STATE_CLOSED)

\* C10: REMOTE_OPENED, REMOTE_CLOSED, LOCAL_OPENED, LOCAL_CLOSED sent to a
\* fresh endpoint visits REQUESTED, ABANDONED, NEED_CLOSE, CLOSED in that
\* order and invokes _ep_requested, nothing on entering ABANDONED,
\* _ep_need_close, then _ep_closed, each once; _ep_active and _ep_error are
\* never invoked.
C10_EarlyAbandonPath ==
  /\ PathHolds(<<REMOTE_OPENED, REMOTE_CLOSED, LOCAL_OPENED, LOCAL_CLOSED>>,
               <<STATE_REQUESTED, STATE_ABANDONED, STATE_NEED_CLOSE,
                 STATE_CLOSED>>,
               << <<EpRequested>>, << >>, <<EpNeedClose>>, <<EpClosed>> >>)
  /\ \A e \in Endpoints :
       Walked(e, <<REMOTE_OPENED, REMOTE_CLOSED, LOCAL_OPENED, LOCAL_CLOSED>>,
              _state[e])
         => HooksOf(e) = <<EpRequested, EpNeedClose, EpClosed>>

C10_Witness ==
  \E e \in Endpoints :
    Walked(e, <<REMOTE_OPENED, REMOTE_CLOSED, LOCAL_OPENED, LOCAL_CLOSED>>,
           STATE_CLOSED)

\* C11: in STATE_CLOSED every further REMOTE_CLOSED, however many, leaves the
\* state at STATE_CLOSED and invokes no hook.
C11_RedundantRemoteClose ==
  \A e \in Endpoints : \A i \in 1..Len(hist[e]) :
    (hist[e][i].from = STATE_CLOSED /\ hist[e][i].event = REMOTE_CLOSED)
      => /\ hist[e][i].to = STATE_CLOSED
         /\ HooksAt(e, i) = << >>
         /\ Len(SelectSeq(calls[e], LAMBDA c : c.at >= i
                                               /\ c.hook = EpClosed)) = 0
         /\ (i = Len(hist[e]) => _state[e] = STATE_CLOSED)

C11_Witness ==
  \E e \in Endpoints :
    /\ Len(hist[e]) = 5
    /\ \A i \in 4..5 : /\ hist[e][i].from = STATE_CLOSED
                       /\ hist[e][i].event = REMOTE_CLOSED
    /\ _state[e] = STATE_CLOSED
    /\ Count(e, EpClosed) = 1

\* C13: the message handed to _ep_error names the event dispatched and the
\* state the endpoint was in when it arrived; that state is never
\* STATE_ERROR, although _state is STATE_ERROR when the hook runs.
C13_ErrorMessageNamesOldState ==
  \A e \in Endpoints : \A k \in 1..Len(calls[e]) :
    calls[e][k].hook = EpError
      => LET c == calls[e][k]
             h == hist[e][c.at]
         IN  /\ c.arg = <<"invalid event=", EVENT_NAMES[h.event + 1],
                          " in state=", STATE_NAMES[h.from + 1]>>
             /\ c.arg[4] # "STATE_ERROR"
             /\ h.from # STATE_ERROR
             /\ c.seen = STATE_ERROR

C13_Witness ==
  \E e \in Endpoints :
    /\ Len(calls[e]) = 2
    /\ calls[e][2].hook = EpError
    /\ calls[e][2].arg =
         <<"invalid event=", "REMOTE_OPENED", " in state=", "STATE_ACTIVE">>
    /\ _state[e] = STATE_ERROR

\* The events delivered to endpoint e so far.
EventSet(e) == {hist[e][i].event : i \in 1..Len(hist[e])}

\* C15: in STATE_ACTIVE both LOCAL_OPENED and REMOTE_OPENED have been
\* delivered and neither LOCAL_CLOSED nor REMOTE_CLOSED has; in STATE_CLOSED
\* both LOCAL_CLOSED and REMOTE_CLOSED have been delivered.
C15_StateMeanings ==
  \A e \in Endpoints :
    /\ _state[e] = STATE_ACTIVE => EventSet(e) = {LOCAL_OPENED, REMOTE_OPENED}
    /\ _state[e] = STATE_CLOSED
         => {LOCAL_CLOSED, REMOTE_CLOSED} \subseteq EventSet(e)
    /\ \A i \in 1..Len(hist[e]) :
         /\ hist[e][i].to = STATE_ACTIVE
              => {hist[e][j].event : j \in 1..i}
                   = {LOCAL_OPENED, REMOTE_OPENED}
         /\ hist[e][i].to = STATE_CLOSED
              => {LOCAL_CLOSED, REMOTE_CLOSED}
                   \subseteq {hist[e][j].event : j \in 1..i}

C15_Witness ==
  \E e1 \in Endpoints : \E e2 \in Endpoints :
    /\ _state[e1] = STATE_ACTIVE
    /\ Len(hist[e1]) = 2
    /\ _state[e2] = STATE_CLOSED
    /\ Len(hist[e2]) = 3

\* Endpoint e has been sent each event at most once, LOCAL_CLOSED only after
\* LOCAL_OPENED and REMOTE_CLOSED only after REMOTE_OPENED.
WellOrdered(e) ==
  /\ \A i \in 1..Len(hist[e]) : \A j \in 1..Len(hist[e]) :
       hist[e][i].event = hist[e][j].event => i = j
  /\ \A i \in 1..Len(hist[e]) :
       /\ hist[e][i].event = LOCAL_CLOSED
            => \E j \in 1..(i - 1) : hist[e][j].event = LOCAL_OPENED
       /\ hist[e][i].event = REMOTE_CLOSED
            => \E j \in 1..(i - 1) : hist[e][j].event = REMOTE_OPENED

\* C17: an endpoint that has been sent a prefix of an interleaving of
\* (LOCAL_OPENED, LOCAL_CLOSED) with (REMOTE_OPENED, REMOTE_CLOSED), each
\* event at most once, has never been in STATE_ERROR and has not invoked
\* _ep_error.
C17_WellOrderedNeverFails ==
  \A e \in Endpoints :
    WellOrdered(e)
      => /\ _state[e] # STATE_ERROR
         /\ \A i \in 1..Len(hist[e]) : hist[e][i].to # STATE_ERROR
         /\ Count(e, EpError) = 0

C17_Witness ==
  \E e \in Endpoints :
    /\ WellOrdered(e)
    /\ Walked(e, <<REMOTE_OPENED, LOCAL_OPENED, REMOTE_CLOSED, LOCAL_CLOSED>>,
              STATE_CLOSED)

\* C19: whatever events an endpoint is sent, each of the five hooks is
\* invoked at most once; a hook is only invoked by a dispatch that changes
\* the state.
C19_HooksAtMostOnce ==
  \A e \in Endpoints :
    /\ \A hook \in Hooks : Count(e, hook) <= 1
    /\ \A k \in 1..Len(calls[e]) :
         hist[e][calls[e][k].at].from # hist[e][calls[e][k].at].to

C19_Witness ==
  \E e \in Endpoints :
    /\ Len(hist[e]) = 5
    /\ \A hook \in Hooks : Count(e, hook) = 1

\* The state the dispatcher leaves an endpoint in that is sent `event` in s.
StepTo(s, event) == ProcessEndpointEvent(s, event, 1).state

\* The largest element of a non-empty set of numbers.
Maximum(S) == CHOOSE x \in S : \A y \in S : y <= x

\* The most changes of state any event sequence of at most `fuel` events
\* causes from state s.
RECURSIVE LongestFrom(_, _)
LongestFrom(s, fuel) ==
  LET succ == {StepTo(s, event) : event \in Events} \ {s}
  IN  IF fuel = 0 \/ succ = {} THEN 0
      ELSE 1 + Maximum({LongestFrom(t, fuel - 1) : t \in succ})

\* LongestFrom for every state, over sequences of as many events as there
\* are states.
Longest == [s \in States |-> LongestFrom(s, Cardinality(States))]

\* The number of dispatches of endpoint e that changed its state.
Changes(e) ==
  Cardinality({i \in 1..Len(hist[e]) : hist[e][i].from # hist[e][i].to})

\* C20: only STATE_CLOSED and STATE_ERROR have self-loops; a state once left
\* is never entered again, STATE_UNINIT in particular; no event sequence
\* changes the state more than 5 times: the changes made so far and the most
\* changes the transition relation still allows from the current state (over
\* sequences of as many events as there are states) are 5 at most.
C20_OnlyForward ==
  /\ Longest[STATE_UNINIT] = 5
  /\ \A e \in Endpoints :
       /\ Changes(e) + Longest[_state[e]] <= 5
       /\ \A i \in 1..Len(hist[e]) :
            /\ hist[e][i].to # STATE_UNINIT
            /\ hist[e][i].from = hist[e][i].to
                 => hist[e][i].from \in Terminal
            /\ hist[e][i].from # hist[e][i].to
                 => \A j \in i..Len(hist[e]) :
                      hist[e][j].to # hist[e][i].from

C20_Witness ==
  \E e \in Endpoints :
    /\ Changes(e) = 5
    /\ _state[e] = STATE_ERROR
    /\ hist[e][4].to = STATE_CLOSED

\* The number of notifications of `side` among the first k calls made on e.
SideCount(e, side, k) ==
  Cardinality({j \in 1..k : ops[e][j].op = side})

\* The event a side's first notification stands for, and its second.
OpenedOf(side) == IF side = "remote" THEN REMOTE_OPENED ELSE LOCAL_OPENED
ClosedOf(side) == IF side = "remote" THEN REMOTE_CLOSED ELSE LOCAL_CLOSED

\* What is left of a side's two expected events after n notifications.
LeftOf(side, n) ==
  IF n = 0 THEN <<OpenedOf(side), ClosedOf(side)>>
  ELSE IF n = 1 THEN <<ClosedOf(side)>> ELSE << >>

\* C12, in every state: on each side the first notification was dispatched
\* as the side's OPENED event, the second as its CLOSED event, and every
\* later one dispatched nothing and raised nothing; each list holds what its
\* own side's notifications have left of it.
C12_ShimSequence ==
  \A e \in Endpoints :
    /\ \A k \in 1..Len(ops[e]) :
         LET o == ops[e][k]
             n == SideCount(e, o.op, k)
         IN  /\ o.op \in {"remote", "local"}
             /\ ~o.raised
             /\ n = 1 => /\ o.arg = <<OpenedOf(o.op)>>
                         /\ hist[e][o.at].event = OpenedOf(o.op)
             /\ n = 2 => /\ o.arg = <<ClosedOf(o.op)>>
                         /\ hist[e][o.at].event = ClosedOf(o.op)
             /\ n >= 3 => /\ o.arg = << >>
                          /\ o.at = 0
    /\ _remote_events[e]
         = LeftOf("remote", SideCount(e, "remote", Len(ops[e])))
    /\ _local_events[e]
         = LeftOf("local", SideCount(e, "local", Len(ops[e])))
    /\ Len(hist[e]) = Len(SelectSeq(ops[e], LAMBDA o : o.arg # << >>))

\* C12, in every step: a notification that dispatches nothing leaves the
\* endpoint's state, both lists, its dispatches and its hook invocations as
\* they were; a notification of one side leaves the other side's list as it
\* was.
C12_ShimStep ==
  \A e \in Endpoints :
    Len(ops'[e]) = Len(ops[e]) + 1
      => LET o == ops'[e][Len(ops'[e])]
         IN  /\ o.arg = << >>
                  => /\ _state'[e] = _state[e]
                     /\ _remote_events'[e] = _remote_events[e]
                     /\ _local_events'[e] = _local_events[e]
                     /\ hist'[e] = hist[e]
                     /\ calls'[e] = calls[e]
             /\ o.op = "remote" => _local_events'[e] = _local_events[e]
             /\ o.op = "local" => _remote_events'[e] = _remote_events[e]

\* C12: the legacy notifications of a side are taken, in order, for that
\* side's OPENED and CLOSED events; the third and every later one is
\* discarded without error and changes nothing; no notification consumes from
\* the other side's list.
C12_CompatShim == [] C12_ShimSequence /\ [][C12_ShimStep]_vars

C12_Witness ==
  \E e \in Endpoints :
    /\ Len(ops[e]) = 5
    /\ SideCount(e, "remote", 5) = 4
    /\ ops[e][1].op = "remote"
    /\ ops[e][2].op = "local"
    /\ ops[e][5].arg = << >>
    /\ _state[e] = STATE_NEED_CLOSE
    /\ _local_events[e] = <<LOCAL_CLOSED>>
    /\ _remote_events[e] = << >>

\* An endpoint of the legacy build right after __init__, on its own.
Fresh ==
  [state |-> STATE_UNINIT, hist |-> << >>, calls |-> << >>,
   remote |-> <<REMOTE_OPENED, REMOTE_CLOSED>>,
   local |-> <<LOCAL_OPENED, LOCAL_CLOSED>>]

\* A dispatch of `event` made on the lone endpoint p.
AloneEvent(p, event) ==
  LET r == ProcessEndpointEvent(p.state, event, Len(p.hist) + 1)
  IN  [p EXCEPT !.state = r.state,
                !.hist = Append(@, [event |-> event, from |-> p.state,
                                    to |-> r.state]),
                !.calls = @ \o r.calls]

\* A notification of `side` made on the lone endpoint p.
AloneNotify(p, side) ==
  LET list == IF side = "remote" THEN p.remote ELSE p.local
  IN  IF list = << >> THEN p
      ELSE LET q == AloneEvent(p, Head(list))
           IN  IF side = "remote" THEN [q EXCEPT !.remote = Tail(list)]
               ELSE [q EXCEPT !.local = Tail(list)]

\* The lone endpoint after the calls `seq`, of which only the method and,
\* for _process_endpoint_event, the event are read.
RECURSIVE Alone(_)
Alone(seq) ==
  IF seq = << >> THEN Fresh
  ELSE LET p == Alone(SubSeq(seq, 1, Len(seq) - 1))
           o == seq[Len(seq)]
       IN  IF o.op = "event" THEN AloneEvent(p, o.arg[1])
           ELSE AloneNotify(p, o.op)

\* C14, in every state: each endpoint is where the calls made on it would
\* have taken it had no other endpoint existed.
C14_AsInIsolation ==
  \A e \in Endpoints :
    Alone(ops[e]) = [state |-> _state[e], hist |-> hist[e],
                     calls |-> calls[e], remote |-> _remote_events[e],
                     local |-> _local_events[e]]

\* C14, in every step: a call made on one endpoint leaves the state, the two
\* lists, the dispatches and the hook invocations of every other endpoint as
\* they were.
C14_OthersUnchanged ==
  \A e \in Endpoints :
    ops'[e] # ops[e]
      => \A x \in Endpoints \ {e} :
           /\ _state'[x] = _state[x]
           /\ _remote_events'[x] = _remote_events[x]
           /\ _local_events'[x] = _local_events[x]
           /\ hist'[x] = hist[x]
           /\ calls'[x] = calls[x]
           /\ ops'[x] = ops[x]

\* C14: endpoints served by one engine, in any interleaving of events and
\* notifications, do not affect one another.
C14_Independent == [] C14_AsInIsolation /\ [][C14_OthersUnchanged]_vars

C14_Witness ==
  \E e1 \in Endpoints : \E e2 \in Endpoints :
    /\ e1 # e2
    /\ Len(ops[e1]) = 2 /\ ops[e1][1].op = "remote" /\ ops[e1][2].op = "event"
    /\ Len(ops[e2]) = 2 /\ ops[e2][1].op = "event" /\ ops[e2][2].op = "remote"
    /\ _state[e1] = STATE_ACTIVE
    /\ _state[e2] = STATE_ERROR
    /\ _remote_events[e1] = <<REMOTE_CLOSED>>
    /\ _remote_events[e2] = <<REMOTE_CLOSED>>

\* C18, in every state: an endpoint that has had at least two notifications
\* of each side is in STATE_CLOSED, has invoked _ep_closed exactly once and
\* _ep_error never (so it stays there under further notifications).
C18_ClosedAfterTwoEach ==
  \A e \in Endpoints :
    (/\ SideCount(e, "local", Len(ops[e])) >= 2
     /\ SideCount(e, "remote", Len(ops[e])) >= 2)
      => /\ _state[e] = STATE_CLOSED
         /\ Count(e, EpClosed) = 1
         /\ Count(e, EpError) = 0

\* C18: in the legacy event model, whatever the order of the local and remote
\* notifications, two of each side close the endpoint for good; when the
\* notifications an endpoint expects are delivered fairly, every endpoint
\* reaches STATE_CLOSED and stays there.
C18_CompatCompletes ==
  /\ [] C18_ClosedAfterTwoEach
  /\ <>[](\A e \in Endpoints : _state[e] = STATE_CLOSED)

C18_Witness ==
  \E e \in Endpoints :
    /\ Len(ops[e]) = 5
    /\ SideCount(e, "local", 5) = 3
    /\ SideCount(e, "remote", 5) = 2
    /\ ops[e][1].op = "remote"
    /\ ops[e][2].op = "remote"
    /\ ops[e][5].arg = << >>
    /\ _state[e] = STATE_CLOSED
    /\ Count(e, EpClosed) = 1

\* C16: when _ep_need_close feeds LOCAL_CLOSED back into the endpoint, the
\* nested dispatch starts in STATE_NEED_CLOSE, ends in STATE_CLOSED and
\* invokes _ep_closed, once, and no error hook; when the outer call returns
\* the endpoint is in STATE_CLOSED.
C16_ReentrantNeedClose ==
  \A e \in Endpoints : \A i \in 1..Len(hist[e]) :
    HooksAt(e, i) = <<EpNeedClose>>
      => /\ hist[e][i].to = STATE_NEED_CLOSE
         /\ \E k \in 1..Len(ops[e]) : ops[e][k].at = i
         /\ Len(hist[e]) >= i + 1
         /\ \A k \in 1..Len(ops[e]) : ops[e][k].at # i + 1
         /\ hist[e][i + 1] = [event |-> LOCAL_CLOSED,
                              from |-> STATE_NEED_CLOSE,
                              to |-> STATE_CLOSED]
         /\ HooksAt(e, i + 1) = <<EpClosed>>
         /\ \A k \in 1..Len(calls[e]) :
              calls[e][k].at = i => calls[e][k].seen = STATE_NEED_CLOSE
         /\ \A k \in 1..Len(calls[e]) :
              calls[e][k].at = i + 1 => calls[e][k].seen = STATE_CLOSED
         /\ Count(e, EpClosed) = 1
         /\ Len(hist[e]) = i + 1
              => /\ _state[e] = STATE_CLOSED
                 /\ Count(e, EpError) = 0

C16_Witness ==
  \E e \in Endpoints :
    /\ Len(ops[e]) = 3
    /\ ops[e][3].arg = <<REMOTE_CLOSED>>
    /\ ops[e][3].at = 3
    /\ Len(hist[e]) = 4
    /\ hist[e][3].from = STATE_ACTIVE
    /\ HooksOf(e) = <<EpActive, EpNeedClose, EpClosed>>
    /\ _state[e] = STATE_CLOSED

=============================================================================
